---- MODULE Spec2Model ----
(***************************************************************************)
(* Topic resolution and duplicate detection of the Telegram backup bot.    *)
(*                                                                         *)
(* Names are sequences of Unicode code points.  The registry (a Python     *)
(* dict) is a sequence of <<key, handle>> pairs in insertion order.        *)
(***************************************************************************)
EXTENDS Integers, Sequences, FiniteSets, TLC

(***************************************************************************)
(* Characters.  The tables cover the code points used by the model's       *)
(* names; the ASCII classes are complete.                                  *)
(***************************************************************************)

\* unicodedata.normalize('NFD', c) of one code point
NFDChar(c) ==
    CASE c = 233   -> <<101, 769>>      \* e-acute -> e + combining acute
      [] c = 8490  -> <<75>>            \* KELVIN SIGN -> K (singleton)
      [] c = 44032 -> <<4352, 4449>>    \* Hangul GA -> jamo L + V
      [] OTHER     -> <<c>>

\* unicodedata.category(c) == 'Mn'
IsMn(c) == c \in {768, 769, 776}

\* canonical composition of a pair of code points, 0 when there is none
ComposePair(x, y) ==
    CASE x = 101 /\ y = 769    -> 233
      [] x = 4352 /\ y = 4449  -> 44032
      [] OTHER                 -> 0

\* \w of the re module on a character below 128
IsWord(c) == (c >= 48 /\ c <= 57) \/ (c >= 65 /\ c <= 90)
             \/ (c >= 97 /\ c <= 122) \/ c = 95

\* \s of the re module, str.isspace, on a character below 128
IsSpace(c) == c \in {9, 10, 11, 12, 13, 28, 29, 30, 31, 32}

\* str.lower on a character below 128
LowerChar(c) == IF c >= 65 /\ c <= 90 THEN c + 32 ELSE c

\* unicodedata.normalize('NFD', s)
RECURSIVE NFD(_)
NFD(s) ==
    IF s = <<>> THEN <<>>
    ELSE IF Len(s) = 1 THEN NFDChar(s[1])
    ELSE NFD(SubSeq(s, 1, Len(s) \div 2))
           \o NFD(SubSeq(s, Len(s) \div 2 + 1, Len(s)))

StripMn(s) == SelectSeq(s, LAMBDA c : ~IsMn(c))

\* the composition runs from left to right: the last character put out
\* for the first half is the one the second half may still compose with
RECURSIVE NFC(_)
NFCJoin(left, right) ==
    SubSeq(left, 1, Len(left) - 1) \o NFC(<<left[Len(left)]>> \o right)

NFC(s) ==
    IF Len(s) < 2 THEN s
    ELSE IF Len(s) = 2
         THEN IF ComposePair(s[1], s[2]) # 0
              THEN <<ComposePair(s[1], s[2])>>
              ELSE s
    ELSE NFCJoin(NFC(SubSeq(s, 1, (Len(s) + 1) \div 2)),
                 SubSeq(s, (Len(s) + 1) \div 2 + 1, Len(s)))

\* ''.join(char if ord(char) < 128 else ' ' for char in s)
AsciiOnly(s) == [i \in 1..Len(s) |-> IF s[i] < 128 THEN s[i] ELSE 32]

\* re.sub(r'[^\w\s]', ' ', s)
SubPunct(s) ==
    [i \in 1..Len(s) |-> IF IsWord(s[i]) \/ IsSpace(s[i]) THEN s[i] ELSE 32]

\* re.sub(r'\s+', ' ', s)
\* of a run of whitespace the last character stays, as a space
SpaceAt(s, kept) == [k \in 1..Len(kept) |-> IF IsSpace(s[kept[k]]) THEN 32 ELSE s[kept[k]]]

SubSpaces(s) ==
    SpaceAt(s, SelectSeq([i \in 1..Len(s) |-> i],
                         LAMBDA i : ~(IsSpace(s[i]) /\ i < Len(s) /\ IsSpace(s[i + 1]))))

RECURSIVE LStrip(_)
LStrip(s) == IF s # <<>> /\ IsSpace(Head(s)) THEN LStrip(Tail(s)) ELSE s

RECURSIVE RStrip(_)
RStrip(s) ==
    IF s # <<>> /\ IsSpace(s[Len(s)]) THEN RStrip(SubSeq(s, 1, Len(s) - 1)) ELSE s

\* str.strip(), and re.sub(r'^\s+|\s+$', '', s)
Strip(s) == RStrip(LStrip(s))

Lower(s) == [i \in 1..Len(s) |-> LowerChar(s[i])]

\* faulty variant: the ends are stripped before the punctuation is replaced
normalize_strip_first(name) ==
    IF name = <<>> THEN <<>>
    ELSE Lower(SubSpaces(SubPunct(Strip(AsciiOnly(StripMn(NFD(name)))))))

\* module-level normalize_topic_name of telegram_bot.py
normalize_topic_name(name) ==
    IF name = <<>> THEN <<>>
    ELSE Lower(Strip(SubSpaces(SubPunct(AsciiOnly(StripMn(NFD(name)))))))

\* faulty variant: the combining marks stay, the accented letter is recomposed
detector_normalize_keeps_accents(name) ==
    IF name = <<>> THEN <<>>
    ELSE Strip(Lower(Strip(SubSpaces(SubPunct(AsciiOnly(NFC(NFD(name))))))))

\* ImprovedDuplicateDetector.normalize_topic_name
detector_normalize_topic_name(name) ==
    IF name = <<>> THEN <<>>
    ELSE Strip(Lower(Strip(SubSpaces(SubPunct(AsciiOnly(NFC(StripMn(NFD(name)))))))))

\* str.split(): the maximal runs of non-whitespace characters
SplitWord(s) ==
    IF \E i \in 1..Len(s) : IsSpace(s[i])
    THEN SubSeq(s, 1, (CHOOSE i \in 1..Len(s) :
                         IsSpace(s[i]) /\ \A j \in 1..(i - 1) : ~IsSpace(s[j])) - 1)
    ELSE s

RECURSIVE Split(_)
Split(s) ==
    LET t == LStrip(s) IN
    IF t = <<>> THEN <<>>
    ELSE <<SplitWord(t)>> \o Split(SubSeq(t, Len(SplitWord(t)) + 1, Len(t)))

Range(s) == {s[i] : i \in 1..Len(s)}

\* self.stop_words, as code point sequences
stop_words ==
    { <<99,104,97,110,110,101,108>>,      \* channel
      <<103,114,111,117,112>>,            \* group
      <<99,104,97,116>>,                  \* chat
      <<111,102,105,99,105,97,108>>,      \* oficial
      <<111,102,102,105,99,105,97,108>>,  \* official
      <<118,105,112>>,                    \* vip
      <<112,114,101,109,105,117,109>>,    \* premium
      <<110,101,119>>,                    \* new
      <<110,111,118,111>>,                \* novo
      <<110,111,118,97>>,                 \* nova
      <<116,104,101>>,                    \* the
      <<97>>,                             \* a
      <<97,110>> }                        \* an

extract_keywords(name) ==
    {w \in Range(Split(detector_normalize_topic_name(name))) :
        Len(w) >= 2 /\ w \notin stop_words}

(***************************************************************************)
(* difflib.SequenceMatcher(None, a, b).ratio() without junk (the autojunk  *)
(* heuristic needs 200 characters), as the rational <<2 * matches, total>>.*)
(***************************************************************************)

RECURSIVE RunLen(_, _, _, _, _, _)
RunLen(a, i, ahi, b, j, bhi) ==
    IF i <= ahi /\ j <= bhi /\ a[i] = b[j]
    THEN 1 + RunLen(a, i + 1, ahi, b, j + 1, bhi)
    ELSE 0

\* find_longest_match: the longest block, earliest in a, then earliest in b
find_longest_match(a, alo, ahi, b, blo, bhi) ==
    LET cand == {<<i, j>> : i \in alo..ahi, j \in blo..bhi}
        k(p) == RunLen(a, p[1], ahi, b, p[2], bhi)
        best == CHOOSE p \in cand :
                   \A q \in cand :
                      \/ k(p) > k(q)
                      \/ k(p) = k(q) /\ p[1] < q[1]
                      \/ k(p) = k(q) /\ p[1] = q[1] /\ p[2] <= q[2]
    IN  [i |-> best[1], j |-> best[2], size |-> k(best)]

\* the sum of the sizes of get_matching_blocks
RECURSIVE Matches(_, _, _, _, _, _)
Matches(a, alo, ahi, b, blo, bhi) ==
    IF alo > ahi \/ blo > bhi THEN 0
    ELSE LET m == find_longest_match(a, alo, ahi, b, blo, bhi) IN
         IF m.size = 0 THEN 0
         ELSE m.size
              + Matches(a, alo, m.i - 1, b, blo, m.j - 1)
              + Matches(a, m.i + m.size, ahi, b, m.j + m.size, bhi)

(***************************************************************************)
(* Rationals <<numerator, denominator>>, kept in lowest terms.             *)
(***************************************************************************)

RECURSIVE Gcd(_, _)
Gcd(x, y) == IF y = 0 THEN x ELSE Gcd(y, x % y)

Reduce(r) ==
    IF r[1] = 0 THEN <<0, 1>>
    ELSE <<r[1] \div Gcd(r[1], r[2]), r[2] \div Gcd(r[1], r[2])>>

RAdd(r, s) == Reduce(<<r[1] * s[2] + s[1] * r[2], r[2] * s[2]>>)
RMul(r, s) == Reduce(<<r[1] * s[1], r[2] * s[2]>>)
RGe(r, s)  == r[1] * s[2] >= s[1] * r[2]
RGt(r, s)  == r[1] * s[2] > s[1] * r[2]

ratio(a, b) ==
    IF Len(a) + Len(b) = 0 THEN <<1, 1>>
    ELSE Reduce(<<2 * Matches(a, 1, Len(a), b, 1, Len(b)), Len(a) + Len(b)>>)

RECURSIVE RSum(_)
RSum(s) == IF s = <<>> THEN <<0, 1>> ELSE RAdd(Head(s), RSum(Tail(s)))

\* max((ratio(w, v) for v in words), default=0.0)
RECURSIVE BestRatio(_, _)
BestRatio(w, words) ==
    IF words = <<>> THEN <<0, 1>>
    ELSE LET r == ratio(w, Head(words))
             m == BestRatio(w, Tail(words))
         IN  IF RGt(r, m) THEN r ELSE m

\* calculate_similarity, lines 120-174: the weighted sum of the three methods
hybrid_score(name1, name2) ==
    LET norm1 == detector_normalize_topic_name(name1)
        norm2 == detector_normalize_topic_name(name2)
        seq_similarity == ratio(norm1, norm2)
        keywords1 == extract_keywords(name1)
        keywords2 == extract_keywords(name2)
        keyword_similarity ==
            IF keywords1 # {} /\ keywords2 # {}
            THEN Reduce(<<Cardinality(keywords1 \cap keywords2),
                          Cardinality(keywords1 \cup keywords2)>>)
            ELSE <<0, 1>>
        words1 == Split(norm1)
        words2 == Split(norm2)
        word_similarities ==
            [i \in 1..Len(words1) |-> BestRatio(words1[i], words2)]
            \o [i \in 1..Len(words2) |-> BestRatio(words2[i], words1)]
        word_avg_similarity ==
            IF word_similarities # <<>>
            THEN RMul(RSum(word_similarities), <<1, Len(word_similarities)>>)
            ELSE <<0, 1>>
    IN  RAdd(RMul(seq_similarity, <<2, 5>>),
             RAdd(RMul(keyword_similarity, <<7, 20>>),
                  RMul(word_avg_similarity, <<1, 4>>)))

\* faulty variant: no short cut for equal canonical forms
calculate_similarity_no_shortcut(name1, name2) ==
    IF name1 = <<>> \/ name2 = <<>> THEN <<0, 1>>
    ELSE hybrid_score(name1, name2)

\* faulty variant: no test for empty input
calculate_similarity_unguarded(name1, name2) ==
    IF detector_normalize_topic_name(name1) = detector_normalize_topic_name(name2)
    THEN <<1, 1>>
    ELSE hybrid_score(name1, name2)

\* ImprovedDuplicateDetector.calculate_similarity: the score
calculate_similarity(name1, name2) ==
    IF name1 = <<>> \/ name2 = <<>> THEN <<0, 1>>
    ELSE IF detector_normalize_topic_name(name1) = detector_normalize_topic_name(name2)
         THEN <<1, 1>>
         ELSE hybrid_score(name1, name2)

\* ImprovedDuplicateDetector.__init__: similarity_threshold = 0.85
similarity_threshold == <<17, 20>>

\* faulty variant: the test of BotAnalyzer, above 0.8
are_duplicates_analyzer(name1, name2) ==
    RGt(calculate_similarity(name1, name2), <<4, 5>>)

\* ImprovedDuplicateDetector.are_duplicates: the verdict
are_duplicates(name1, name2) ==
    RGe(calculate_similarity(name1, name2), similarity_threshold)

(***************************************************************************)
(* Bounds and inputs.                                                      *)
(***************************************************************************)

\* cap on the number of media messages handed to the workers
MaxCalls == 2

\* cap on the number of topics the platform creates
MaxCreate == 2

\* telebot.TeleBot(BOT_TOKEN): threaded, two worker threads run the handlers
NumThreads == 2

Threads == 1..NumThreads

\* chat titles the message source supplies (never empty, forward_media
\* falls back to first_name and to "Chat_<id>")
Names ==
    { <<97, 98, 99>>,                      \* "abc"
      <<65, 66, 67, 33>>,                  \* "ABC!"     canonical "abc"
      <<97, 98, 99, 32, 97>>,              \* "abc a"    scores 0.858 against "abc"
      <<97, 98, 99, 32, 97, 98, 99>>,      \* "abc abc"  scores 0.84 against "abc"
      <<97, 98, 32, 98>>,                  \* "ab b"     scores 0.8 against "b ab"
      <<98, 32, 97, 98>>,                  \* "b ab"     scores 0.9 against "ab b"
      <<128293>>,                          \* U+1F525 FIRE, canonical ""
      <<9749>> }                           \* U+2615 HOT BEVERAGE, canonical ""

(***************************************************************************)
(* JSON values and the registry file.                                      *)
(***************************************************************************)

JDict(items) == [kind |-> "dict", items |-> items, n |-> 0]
JList(len)   == [kind |-> "list", items |-> <<>>, n |-> len]
JNum(v)      == [kind |-> "num",  items |-> <<>>, n |-> v]
JNull        == [kind |-> "null", items |-> <<>>, n |-> 0]

\* bool(data)
Truthy(v) ==
    CASE v.kind = "dict" -> v.items # <<>>
      [] v.kind = "list" -> v.n > 0
      [] v.kind = "num"  -> v.n # 0
      [] OTHER           -> FALSE

\* dict helpers: d.keys(), d[k], d[k] = v
Keys(items) == {items[i][1] : i \in 1..Len(items)}
Lookup(items, k) == (CHOOSE i \in 1..Len(items) : items[i][1] = k)
DictGet(items, k) == items[Lookup(items, k)][2]
DictSet(items, k, v) ==
    IF k \in Keys(items)
    THEN [i \in 1..Len(items) |-> IF items[i][1] = k THEN <<k, v>> ELSE items[i]]
    ELSE Append(items, <<k, v>>)

\* one hexadecimal digit, lower case, as a code point
HexDigit(d) == IF d < 10 THEN 48 + d ELSE 87 + d

\* json.encoder.py_encode_basestring: the text of one character of a string
EscapeChar(c) ==
    CASE c = 34 -> <<92, 34>>          \* \"
      [] c = 92 -> <<92, 92>>          \* \\
      [] c = 8  -> <<92, 98>>          \* \b
      [] c = 9  -> <<92, 116>>         \* \t
      [] c = 10 -> <<92, 110>>         \* \n
      [] c = 12 -> <<92, 102>>         \* \f
      [] c = 13 -> <<92, 114>>         \* \r
      [] c < 32 /\ c \notin {8, 9, 10, 12, 13}
                -> <<92, 117, 48, 48, HexDigit(c \div 16), HexDigit(c % 16)>>
      [] OTHER  -> <<c>>

\* bytes of one character in the file (utf-8, ensure_ascii=False)
CharBytes(c) ==
    IF c < 128 THEN Len(EscapeChar(c))
    ELSE IF c < 2048 THEN 2 ELSE IF c < 65536 THEN 3 ELSE 4

RECURSIVE StrBytes(_)
StrBytes(s) ==
    IF s = <<>> THEN 0
    ELSE IF Len(s) = 1 THEN CharBytes(s[1])
    ELSE StrBytes(SubSeq(s, 1, Len(s) \div 2))
           + StrBytes(SubSeq(s, Len(s) \div 2 + 1, Len(s)))

\* the decimal digits of a non-negative int
RECURSIVE DigitsOf(_)
DigitsOf(v) ==
    IF v < 10 THEN <<48 + v>> ELSE DigitsOf(v \div 10) \o <<48 + (v % 10)>>

\* length of json.dump(d, ensure_ascii=False, indent=2)
RECURSIVE EntriesLen(_)
EntriesLen(items) ==
    IF items = <<>> THEN 0
    ELSE 2 + 2 + StrBytes(Head(items)[1]) + 2 + Len(DigitsOf(Head(items)[2]))
         + (IF Len(items) > 1 THEN 2 ELSE 0) + EntriesLen(Tail(items))
JsonLen(items) == IF items = <<>> THEN 2 ELSE 2 + EntriesLen(items) + 2

RECURSIVE EscapeString(_)
EscapeString(s) ==
    IF s = <<>> THEN <<>> ELSE EscapeChar(Head(s)) \o EscapeString(Tail(s))

\* the entries of a dict from entry i on, indent=2: "key": value, one a line
RECURSIVE DumpEntries(_, _)
DumpEntries(items, i) ==
    IF i > Len(items) THEN <<>>
    ELSE <<10, 32, 32, 34>> \o EscapeString(items[i][1]) \o <<34, 58, 32>>
         \o DigitsOf(items[i][2])
         \o (IF i < Len(items) THEN <<44>> ELSE <<>>)
         \o DumpEntries(items, i + 1)

\* the text json.dump(d, f, ensure_ascii=False, indent=2) writes for a dict
\* of str keys and int values
json_dump(items) ==
    IF items = <<>> THEN <<123, 125>>
    ELSE <<123>> \o DumpEntries(items, 1) \o <<10, 125>>

\* json.decoder: whitespace is skipped
RECURSIVE SkipSpace(_, _)
SkipSpace(text, i) ==
    IF i <= Len(text) /\ text[i] \in {32, 9, 10, 13} THEN SkipSpace(text, i + 1) ELSE i

HexValue(c) ==
    IF c >= 48 /\ c <= 57 THEN c - 48
    ELSE IF c >= 97 /\ c <= 102 THEN c - 87
    ELSE IF c >= 65 /\ c <= 70 THEN c - 55
    ELSE -1

\* the character of the escape sequence that starts at text[i] (a backslash)
\* and its length; length 0: invalid escape
Unescape(text, i) ==
    IF i + 1 > Len(text) THEN [char |-> 0, len |-> 0]
    ELSE CASE text[i + 1] = 34  -> [char |-> 34, len |-> 2]
           [] text[i + 1] = 92  -> [char |-> 92, len |-> 2]
           [] text[i + 1] = 47  -> [char |-> 47, len |-> 2]
           [] text[i + 1] = 98  -> [char |-> 8,  len |-> 2]
           [] text[i + 1] = 102 -> [char |-> 12, len |-> 2]
           [] text[i + 1] = 110 -> [char |-> 10, len |-> 2]
           [] text[i + 1] = 114 -> [char |-> 13, len |-> 2]
           [] text[i + 1] = 116 -> [char |-> 9,  len |-> 2]
           [] text[i + 1] = 117 ->
                IF /\ i + 5 <= Len(text)
                   /\ \A k \in 2..5 : HexValue(text[i + k]) >= 0
                THEN [char |-> 4096 * HexValue(text[i + 2]) + 256 * HexValue(text[i + 3])
                               + 16 * HexValue(text[i + 4]) + HexValue(text[i + 5]),
                      len |-> 6]
                ELSE [char |-> 0, len |-> 0]
           [] OTHER -> [char |-> 0, len |-> 0]

\* py_scanstring from text[i], the character after the opening quote, with
\* the characters read so far; next = 0: the string does not end or holds a
\* raw control character or an invalid escape
RECURSIVE ScanString(_, _, _)
ScanString(text, i, acc) ==
    IF i > Len(text) THEN [val |-> acc, next |-> 0]
    ELSE IF text[i] = 34 THEN [val |-> acc, next |-> i + 1]
    ELSE IF text[i] < 32 THEN [val |-> acc, next |-> 0]
    ELSE IF text[i] = 92
         THEN IF Unescape(text, i).len = 0 THEN [val |-> acc, next |-> 0]
              ELSE ScanString(text, i + Unescape(text, i).len,
                              Append(acc, Unescape(text, i).char))
    ELSE ScanString(text, i + 1, Append(acc, text[i]))

\* the digits from text[i] on, with the value read so far
RECURSIVE ScanDigits(_, _, _)
ScanDigits(text, i, acc) ==
    IF i <= Len(text) /\ text[i] >= 48 /\ text[i] <= 57
    THEN ScanDigits(text, i + 1, 10 * acc + (text[i] - 48))
    ELSE [val |-> acc, next |-> i]

\* NUMBER_RE on a non-negative int: 0, or a digit 1-9 and more digits
ScanInt(text, i, acc) ==
    IF i <= Len(text) /\ text[i] = 48 THEN [val |-> 0, next |-> i + 1]
    ELSE ScanDigits(text, i, acc)

JsonError == [ok |-> FALSE, items |-> <<>>]

RECURSIVE ScanMembers(_, _, _)

\* after "key": the colon, the int value, then a comma or the closing brace
\* and nothing but whitespace after it
ScanValue(text, key, i, items) ==
    IF ~(i <= Len(text) /\ text[i] = 58) THEN JsonError
    ELSE IF ScanInt(text, SkipSpace(text, i + 1), 0).next = SkipSpace(text, i + 1)
         THEN JsonError
    ELSE IF SkipSpace(text, ScanInt(text, SkipSpace(text, i + 1), 0).next) > Len(text)
         THEN JsonError
    ELSE IF text[SkipSpace(text, ScanInt(text, SkipSpace(text, i + 1), 0).next)] = 44
         THEN ScanMembers(text,
                 SkipSpace(text,
                    SkipSpace(text, ScanInt(text, SkipSpace(text, i + 1), 0).next) + 1),
                 DictSet(items, key, ScanInt(text, SkipSpace(text, i + 1), 0).val))
    ELSE IF /\ text[SkipSpace(text, ScanInt(text, SkipSpace(text, i + 1), 0).next)] = 125
            /\ SkipSpace(text,
                  SkipSpace(text, ScanInt(text, SkipSpace(text, i + 1), 0).next) + 1)
                  > Len(text)
         THEN [ok |-> TRUE,
               items |-> DictSet(items, key,
                                 ScanInt(text, SkipSpace(text, i + 1), 0).val)]
    ELSE JsonError

\* JSONObject from a member on: text[i] is the opening quote of a key
ScanMembers(text, i, items) ==
    IF ~(i <= Len(text) /\ text[i] = 34) THEN JsonError
    ELSE IF ScanString(text, i + 1, <<>>).next = 0 THEN JsonError
    ELSE ScanValue(text, ScanString(text, i + 1, <<>>).val,
                   SkipSpace(text, ScanString(text, i + 1, <<>>).next), items)

\* json.load of a text: a dict of str keys and int values, or JSONDecodeError
\* (texts of other JSON values are not produced by save_topics)
json_load(text) ==
    IF ~(SkipSpace(text, 1) <= Len(text) /\ text[SkipSpace(text, 1)] = 123)
    THEN JsonError
    ELSE IF /\ SkipSpace(text, SkipSpace(text, 1) + 1) <= Len(text)
            /\ text[SkipSpace(text, SkipSpace(text, 1) + 1)] = 125
         THEN IF SkipSpace(text, SkipSpace(text, SkipSpace(text, 1) + 1) + 1) > Len(text)
              THEN [ok |-> TRUE, items |-> <<>>]
              ELSE JsonError
         ELSE ScanMembers(text, SkipSpace(text, SkipSpace(text, 1) + 1), <<>>)

FileMissing    == [state |-> "missing",    val |-> JNull, len |-> 0]
FileText(len)  == [state |-> "unparsable", val |-> JNull, len |-> len]
FileJson(v, len) == [state |-> "json", val |-> v, len |-> len]

\* bytes of a text in utf-8
RECURSIVE Utf8Len(_)
Utf8Len(text) ==
    IF text = <<>> THEN 0
    ELSE (IF Head(text) < 128 THEN 1 ELSE IF Head(text) < 2048 THEN 2
          ELSE IF Head(text) < 65536 THEN 3 ELSE 4) + Utf8Len(Tail(text))

\* the file as json.load sees it, from what the decoder makes of its text
FileOfParsed(parsed, len) ==
    IF parsed.ok THEN FileJson(JDict(parsed.items), len) ELSE FileText(len)

\* TOPICS_FILE holding a text
FileOf(text) == FileOfParsed(json_load(text), Utf8Len(text))

(***************************************************************************)
(* The diagnostic readers of the registry file: the dashboard             *)
(* (utils/analytics.py, utils/bot_monitor.py) and bot_analyzer.py. They    *)
(* run in other processes and only read bot/topics.json.                   *)
(***************************************************************************)

\* the utf-8 bytes of one character
Utf8Encode(c) ==
    IF c < 128 THEN <<c>>
    ELSE IF c < 2048 THEN <<192 + (c \div 64), 128 + (c % 64)>>
    ELSE IF c < 65536
         THEN <<224 + (c \div 4096), 128 + ((c \div 64) % 64), 128 + (c % 64)>>
    ELSE <<240 + (c \div 262144), 128 + ((c \div 4096) % 64),
           128 + ((c \div 64) % 64), 128 + (c % 64)>>

\* the bytes a text is written as (encoding='utf-8')
RECURSIVE Utf8Bytes(_)
Utf8Bytes(text) ==
    IF text = <<>> THEN <<>> ELSE Utf8Encode(Head(text)) \o Utf8Bytes(Tail(text))

\* bytes a character takes by its first byte; 0: not a first byte
Utf8Width(b) ==
    IF b < 128 THEN 1
    ELSE IF b >= 194 /\ b <= 223 THEN 2
    ELSE IF b >= 224 /\ b <= 239 THEN 3
    ELSE IF b >= 240 /\ b <= 244 THEN 4
    ELSE 0

\* the character of the Utf8Width(bytes[i]) bytes from bytes[i] on
Utf8Char(bytes, i) ==
    CASE Utf8Width(bytes[i]) = 1 -> bytes[i]
      [] Utf8Width(bytes[i]) = 2 -> (bytes[i] - 192) * 64 + (bytes[i + 1] - 128)
      [] Utf8Width(bytes[i]) = 3 ->
            (bytes[i] - 224) * 4096 + (bytes[i + 1] - 128) * 64 + (bytes[i + 2] - 128)
      [] OTHER ->
            (bytes[i] - 240) * 262144 + (bytes[i + 1] - 128) * 4096
              + (bytes[i + 2] - 128) * 64 + (bytes[i + 3] - 128)

\* f.read() of a file opened with encoding='utf-8' (errors='strict'): the
\* text, or UnicodeDecodeError on a byte that starts no character, a
\* missing continuation byte, or a character cut off by the end of the data
RECURSIVE Utf8Decode(_, _, _)
Utf8Decode(bytes, i, acc) ==
    IF i > Len(bytes) THEN [ok |-> TRUE, text |-> acc]
    ELSE IF Utf8Width(bytes[i]) = 0 THEN [ok |-> FALSE, text |-> acc]
    ELSE IF i + Utf8Width(bytes[i]) - 1 > Len(bytes) THEN [ok |-> FALSE, text |-> acc]
    ELSE IF \E k \in 1..(Utf8Width(bytes[i]) - 1) : (bytes[i + k] < 128 \/ bytes[i + k] > 191)
         THEN [ok |-> FALSE, text |-> acc]
    ELSE Utf8Decode(bytes, i + Utf8Width(bytes[i]), Append(acc, Utf8Char(bytes, i)))

\* what `if os.path.exists(p): with open(p, 'r', encoding='utf-8') as f:
\* json.load(f)` meets: no file, an error of the decoder or of the parser,
\* or a value
NoFile == [exists |-> FALSE, error |-> "none", val |-> JNull]

ReadDecoded(decoded) ==
    IF ~decoded.ok
    THEN [exists |-> TRUE, error |-> "UnicodeDecodeError", val |-> JNull]
    ELSE IF ~json_load(decoded.text).ok
         THEN [exists |-> TRUE, error |-> "JSONDecodeError", val |-> JNull]
    ELSE [exists |-> TRUE, error |-> "none",
          val |-> JDict(json_load(decoded.text).items)]

\* reading a file that holds these bytes
ReadBytes(bytes) == ReadDecoded(Utf8Decode(bytes, 1, <<>>))

\* len(topics): defined on a dict and on a list, TypeError on the rest
HasLen(v) == v.kind \in {"dict", "list"}
PyLen(v) == IF v.kind = "dict" THEN Len(v.items) ELSE v.n

\* BotMonitor.get_topics_count on what reading the file gives: every
\* exception is swallowed and counts as 0
get_topics_count(r) ==
    [raised |-> FALSE,
     value  |-> IF r.exists /\ r.error = "none" /\ HasLen(r.val)
                THEN PyLen(r.val) ELSE 0]

\* AnalyticsManager.get_summary_stats: the two fields taken from the
\* registry file and total_messages of the statistics; any exception gives
\* the all-zero summary
get_summary_stats(r, total_messages) ==
    IF r.exists /\ (r.error # "none" \/ ~HasLen(r.val))
    THEN [raised |-> FALSE, total_topics |-> 0, active_sources |-> 0,
          total_messages |-> 0]
    ELSE [raised |-> FALSE,
          total_topics   |-> IF r.exists THEN PyLen(r.val) ELSE 0,
          active_sources |-> IF r.exists THEN PyLen(r.val) ELSE 0,
          total_messages |-> total_messages]

\* test_topics.json, the file load_current_topics falls back to; the
\* repository has none
test_topics == NoFile

\* BotAnalyzer.load_current_topics: returns what json.load gives; only
\* FileNotFoundError and JSONDecodeError lead to the fallback file, whose
\* errors are all swallowed, and to None; any other exception leaves the
\* function
load_current_topics(r) ==
    IF r.exists /\ r.error = "none" THEN [raised |-> FALSE, value |-> r.val]
    ELSE IF r.exists /\ r.error \notin {"FileNotFoundError", "JSONDecodeError"}
         THEN [raised |-> TRUE, value |-> JNull]
    ELSE IF test_topics.exists /\ test_topics.error = "none"
         THEN [raised |-> FALSE, value |-> test_topics.val]
    ELSE [raised |-> FALSE, value |-> JNull]

\* the data of the file while json.dump of a dict is under way: the file
\* was truncated by open(..., 'w') and holds the bytes that have reached
\* it so far, the first k of all (the writes of the buffered file go out
\* in blocks of bytes, not of characters)
Torn(items) ==
    {SubSeq(Utf8Bytes(json_dump(items)), 1, k) :
        k \in 0..(Len(Utf8Bytes(json_dump(items))) - 1)}

\* what bot/topics.json may hold when the process starts
InitialFiles ==
    { FileMissing, FileText(7),
      FileJson(JNull, 4), FileJson(JNum(5), 1),
      FileJson(JList(0), 2), FileJson(JList(1), 3) }

\* TelegramBackupBot.load_topics
load_topics(f) ==
    IF f.state = "missing" \/ f.state = "unparsable"
    THEN [raised |-> FALSE, value |-> JDict(<<>>)]
    ELSE IF Truthy(f.val)
         THEN IF f.val.kind # "dict"
              THEN [raised |-> TRUE, value |-> JNull]
              ELSE IF Head(f.val.items)[1] # <<>> /\ Head(Head(f.val.items)[1]) = 45
                   THEN [raised |-> FALSE, value |-> JDict(<<>>)]
                   ELSE [raised |-> FALSE, value |-> f.val]
         ELSE [raised |-> FALSE, value |-> f.val]

(***************************************************************************)
(* The duplicate detector on a registry: best match and duplicate groups.  *)
(***************************************************************************)

\* lines 221-223: a key replaces the best match only when it scores
\* strictly higher; best_match is <<>> for None
Better(best, existing_name, similarity) ==
    IF RGt(similarity, best.similarity)
    THEN [name |-> existing_name, similarity |-> similarity]
    ELSE best

\* the for loop of check_against_existing from key i on
RECURSIVE BestFrom(_, _, _, _)
BestFrom(new_name, items, i, best) ==
    IF i > Len(items) THEN best
    ELSE BestFrom(new_name, items, i + 1,
                  Better(best, items[i][1],
                         calculate_similarity(new_name, items[i][1])))

\* lines 225-232: the result dict, without all_scores
Verdict(best) ==
    [is_duplicate |-> RGe(best.similarity, similarity_threshold),
     similar_topic |-> IF RGe(best.similarity, similarity_threshold)
                       THEN best.name ELSE <<>>,
     similarity |-> best.similarity]

\* ImprovedDuplicateDetector.check_against_existing
check_against_existing(new_name, items) ==
    IF items = <<>>
    THEN [is_duplicate |-> FALSE, similar_topic |-> <<>>, similarity |-> <<0, 1>>]
    ELSE Verdict(BestFrom(new_name, items, 1,
                          [name |-> <<>>, similarity |-> <<0, 1>>]))

\* faulty variant: single link, a name joins the group when it is a duplicate
\* of any name gathered so far
RECURSIVE ChainFrom(_, _, _, _)
ChainFrom(members, topic_names, j, processed) ==
    IF j > Len(topic_names) THEN <<>>
    ELSE IF /\ topic_names[j] \notin processed
            /\ \E m \in Range(members) : are_duplicates(m, topic_names[j])
         THEN <<topic_names[j]>>
              \o ChainFrom(Append(members, topic_names[j]), topic_names, j + 1,
                           processed)
         ELSE ChainFrom(members, topic_names, j + 1, processed)

GroupTailChained(name1, topic_names, j, processed) ==
    ChainFrom(<<name1>>, topic_names, j, processed)

\* the inner loop of find_duplicates_in_list: the names after position i that
\* are not processed and are duplicates of name1, in list order
RECURSIVE GroupTail(_, _, _, _)
GroupTail(name1, topic_names, j, processed) ==
    IF j > Len(topic_names) THEN <<>>
    ELSE IF topic_names[j] \notin processed /\ are_duplicates(name1, topic_names[j])
         THEN <<topic_names[j]>> \o GroupTail(name1, topic_names, j + 1, processed)
         ELSE GroupTail(name1, topic_names, j + 1, processed)

RECURSIVE GroupsFrom(_, _, _)

\* faulty variant: the names of a reported group are not marked as processed
ReportUnmarked(topic_names, i, processed, group) ==
    IF Len(group) > 1
    THEN <<group>> \o GroupsFrom(topic_names, i + 1, processed)
    ELSE GroupsFrom(topic_names, i + 1, processed)

\* lines 273-275: a group of two or more is reported and its names are
\* processed; then the outer loop goes on
Report(topic_names, i, processed, group) ==
    IF Len(group) > 1
    THEN <<group>> \o GroupsFrom(topic_names, i + 1, processed \cup Range(group))
    ELSE GroupsFrom(topic_names, i + 1, processed)

\* the outer loop of find_duplicates_in_list from position i on
GroupsFrom(topic_names, i, processed) ==
    IF i > Len(topic_names) THEN <<>>
    ELSE IF topic_names[i] \in processed
         THEN GroupsFrom(topic_names, i + 1, processed)
         ELSE Report(topic_names, i, processed,
                     <<topic_names[i]>>
                     \o GroupTail(topic_names[i], topic_names, i + 1, processed))

\* ImprovedDuplicateDetector.find_duplicates_in_list; items is the dict
find_duplicates_in_list(items) ==
    GroupsFrom([i \in 1..Len(items) |-> items[i][1]], 1, {})

(***************************************************************************)
(* BotAnalyzer: the diagnostic scorer of bot_analyzer.py.                  *)
(***************************************************************************)

\* str.lower on one code point of the model's names
StrLowerChar(c) ==
    CASE c >= 65 /\ c <= 90 -> c + 32
      [] c = 8490            -> 107       \* KELVIN SIGN -> k
      [] OTHER               -> c

\* name.lower()
str_lower(s) == [i \in 1..Len(s) |-> StrLowerChar(s[i])]

\* BotAnalyzer.__init__: similarity_threshold = 0.8
analyzer_threshold == <<4, 5>>

\* difflib.SequenceMatcher(None, name1.lower(), name2.lower()).ratio()
analyzer_similarity(name1, name2) == ratio(str_lower(name1), str_lower(name2))

\* round(x, 3) of a rational x >= 0, in thousandths: to the nearest, an exact
\* tie to the even one
Round3(r) ==
    IF (2000 * r[1]) % (2 * r[2]) = r[2]
    THEN IF ((1000 * r[1]) \div r[2]) % 2 = 0
         THEN (1000 * r[1]) \div r[2]
         ELSE (1000 * r[1]) \div r[2] + 1
    ELSE (2000 * r[1] + r[2]) \div (2 * r[2])

\* the inner loop of find_potential_duplicates: the entries of the names after
\* position i that are not processed and score above the threshold against name1
RECURSIVE PotentialTail(_, _, _, _)
PotentialTail(name1, topic_names, j, processed) ==
    IF j > Len(topic_names) THEN <<>>
    ELSE IF /\ topic_names[j] \notin processed
            /\ RGt(analyzer_similarity(name1, topic_names[j]), analyzer_threshold)
         THEN <<[name |-> topic_names[j],
                 similarity |-> analyzer_similarity(name1, topic_names[j])]>>
              \o PotentialTail(name1, topic_names, j + 1, processed)
         ELSE PotentialTail(name1, topic_names, j + 1, processed)

RECURSIVE PotentialFrom(_, _, _)

\* lines 137-139: a group of two or more is reported; its first name and the
\* names gathered (lines 134-135) are processed
PotentialReport(topic_names, i, processed, tail) ==
    IF tail # <<>>
    THEN <<<<[name |-> topic_names[i], similarity |-> <<1, 1>>]>> \o tail>>
         \o PotentialFrom(topic_names, i + 1,
                          processed \cup {topic_names[i]}
                             \cup {tail[k].name : k \in 1..Len(tail)})
    ELSE PotentialFrom(topic_names, i + 1, processed)

\* the outer loop of find_potential_duplicates from position i on
PotentialFrom(topic_names, i, processed) ==
    IF i > Len(topic_names) THEN <<>>
    ELSE IF topic_names[i] \in processed
         THEN PotentialFrom(topic_names, i + 1, processed)
         ELSE PotentialReport(topic_names, i, processed,
                              PotentialTail(topic_names[i], topic_names, i + 1,
                                            processed))

\* BotAnalyzer.find_potential_duplicates; items is the dict
find_potential_duplicates(items) ==
    PotentialFrom([i \in 1..Len(items) |-> items[i][1]], 1, {})

\* BotAnalyzer.create_similarity_matrix, entries in thousandths; a dict keyed
\* by name holds one row and one column per distinct name
create_similarity_matrix(items) ==
    [name1 \in Keys(items) |->
        [name2 \in Keys(items) |->
            IF name1 = name2 THEN 1000
            ELSE Round3(analyzer_similarity(name1, name2))]]

(***************************************************************************)
(* The bot process: start-up, then the worker threads run                  *)
(* get_or_create_topic for the media messages they are handed.             *)
(***************************************************************************)

VARIABLES
    calls,        \* number of get_or_create_topic calls made so far
    phase,        \* "boot", "running", or "crashed" (load_topics raised)
    file,         \* bot/topics.json
    topics,       \* self.topics
    remote,       \* forum topics that exist in the backup supergroup
    save_failed,  \* save_topics has logged "Error saving topics"
    pc,           \* per worker: position in get_or_create_topic
    source_name,  \* per worker: argument of the call
    it,           \* per worker: the dict iterator of the for loop
    thread_id,    \* per worker: local thread_id
    outcome,      \* per worker: how the last call ended
    ret,          \* per worker: value returned, 0 for None
    buf,          \* per worker: text written to the open file, not yet flushed
    save_error,   \* per worker: save_topics of this call caught an exception
    result,       \* per worker: what forward_media returned for its last message
    delivered,    \* number of media messages copied or sent to the backup group
    activity,     \* bot/activity_logs.json: number of entries, by status
    stats,        \* bot/stats.json: total_messages
    received,     \* number of messages the handlers were handed so far
    msg,          \* per worker: the message process_media was last handed
    attempts,     \* per worker: what forward_media tried for that message
    snap,         \* per worker: what log_forwarded_media read from the two files
    log,          \* bot/activity_logs.json: its entries (followed in MediaSpec;
                  \* activity holds their number by status)
    counters,     \* bot/stats.json: "topics", the counter of each source
    logged,       \* number of log_forwarded_media calls that have returned
    fn,           \* the detector function under test, "none" in the bot process
    args,         \* its arguments, a sequence of names
    applied,      \* the function has returned
    value         \* what it returned

vars == <<calls, phase, file, topics, remote, save_failed, pc, source_name, it,
          thread_id, outcome, ret, buf, save_error, result, delivered, activity,
          stats, received, msg, attempts, snap, log, counters, logged,
          fn, args, applied, value>>

locals == <<source_name, it, thread_id, outcome, ret, buf, save_error>>

\* what forward_media and log_forwarded_media leave behind
media == <<result, delivered, activity, stats>>

\* the message handlers: process_media, forward_media and
\* log_forwarded_media step by step
relay == <<received, msg, attempts, snap, log, counters, logged>>

\* a call of a function of the detector, outside the bot process
detector == <<fn, args, applied, value>>

NoIter == [used |-> 0, pos |-> 0]

\* source_name[:128]
TopicNameLimit == 128

\* faulty variant: the name is passed on at its full length
Untruncated(name) == name

Truncated(name) ==
    SubSeq(name, 1, IF Len(name) < TopicNameLimit THEN Len(name) ELSE TopicNameLimit)

\* faulty variant: the keys are compared as raw strings
names_match_raw(existing_name, name) == existing_name = name

\* line 192: existing_normalized == normalized_name
names_match(existing_name, name) ==
    normalize_topic_name(existing_name) = normalize_topic_name(name)

\* no message has arrived, the two log files are empty
NoMessage == [message_id |-> 0, chat |-> 0, type |-> "none", title |-> <<>>,
              first_name |-> <<>>, is_bot |-> FALSE, forward_from |-> 0,
              forward_from_chat |-> 0, media |-> "none"]
NoAttempt == [copy |-> "none", resend |-> "none", sent |-> 0]

RelayInit ==
    /\ received = 0
    /\ msg = [t \in Threads |-> NoMessage]
    /\ attempts = [t \in Threads |-> NoAttempt]
    /\ snap = [t \in Threads |-> [logs |-> <<>>, total |-> 0, topics |-> <<>>]]
    /\ log = <<>>
    /\ counters = <<>>
    /\ logged = 0

Init ==
    /\ calls = 0
    /\ phase = "boot"
    /\ file \in InitialFiles
    /\ topics = JNull
    /\ remote = {}
    /\ save_failed = FALSE
    /\ pc = [t \in Threads |-> "idle"]
    /\ source_name = [t \in Threads |-> <<>>]
    /\ it = [t \in Threads |-> NoIter]
    /\ thread_id = [t \in Threads |-> 0]
    /\ outcome = [t \in Threads |-> "none"]
    /\ ret = [t \in Threads |-> 0]
    /\ buf = [t \in Threads |-> <<>>]
    /\ save_error = [t \in Threads |-> FALSE]
    /\ result = [t \in Threads |-> "none"]
    /\ delivered = 0
    /\ activity = [success |-> 0, failed |-> 0]
    /\ stats = 0
    /\ RelayInit
    /\ fn = "none"
    /\ args = <<>>
    /\ applied = FALSE
    /\ value = <<>>

\* TelegramBackupBot.__init__: self.topics = self.load_topics()
Boot ==
    /\ phase = "boot"
    /\ IF load_topics(file).raised
       THEN phase' = "crashed" /\ UNCHANGED topics
       ELSE phase' = "running" /\ topics' = load_topics(file).value
    /\ UNCHANGED <<detector, relay, media, calls, file, remote, save_failed, pc, locals>>

\* the call ends: return v, or an exception leaves the function
Finish(t, how, v) ==
    /\ pc' = [pc EXCEPT ![t] = "done"]
    /\ outcome' = [outcome EXCEPT ![t] = how]
    /\ ret' = [ret EXCEPT ![t] = v]
    /\ it' = [it EXCEPT ![t] = NoIter]
    /\ buf' = [buf EXCEPT ![t] = <<>>]

\* forward_media of worker t calls get_or_create_topic(chat_id, n) for the
\* chat titled n; the call reaches the for statement, where
\* self.topics.items() raises AttributeError unless self.topics is a dict
Enter(t, n) ==
    /\ phase = "running"
    /\ pc[t] = "idle"
    /\ calls' = calls + 1
    /\ source_name' = [source_name EXCEPT ![t] = n]
    /\ thread_id' = [thread_id EXCEPT ![t] = 0]
    /\ save_error' = [save_error EXCEPT ![t] = FALSE]
    /\ IF topics.kind # "dict"
       THEN Finish(t, "raised", 0)
       ELSE /\ pc' = [pc EXCEPT ![t] = "loop"]
            /\ it' = [it EXCEPT ![t] = [used |-> Len(topics.items), pos |-> 1]]
            /\ outcome' = [outcome EXCEPT ![t] = "none"]
            /\ ret' = [ret EXCEPT ![t] = 0]
            /\ UNCHANGED buf
    /\ UNCHANGED <<detector, media, phase, file, topics, remote, save_failed>>

\* a worker is handed a media message of the chat titled n, one of those
\* process_media lets through
Call(t, n) ==
    /\ calls < MaxCalls
    /\ Enter(t, n)
    /\ UNCHANGED relay

\* next() on the iterator after the dict changed size: RuntimeError
LoopRaise(t) ==
    /\ pc[t] = "loop"
    /\ Len(topics.items) # it[t].used
    /\ Finish(t, "raised", 0)
    /\ UNCHANGED <<detector, relay, media, calls, phase, file, topics, remote, save_failed,
                   source_name, thread_id, save_error>>

\* the next key has the canonical form of the incoming name: return thread_id
LoopHit(t) ==
    /\ pc[t] = "loop"
    /\ Len(topics.items) = it[t].used
    /\ it[t].pos <= Len(topics.items)
    /\ names_match(topics.items[it[t].pos][1], source_name[t])
    /\ Finish(t, "found", topics.items[it[t].pos][2])
    /\ UNCHANGED <<detector, relay, media, calls, phase, file, topics, remote, save_failed,
                   source_name, thread_id, save_error>>

\* the next key does not match: go on with the following one
LoopMiss(t) ==
    /\ pc[t] = "loop"
    /\ Len(topics.items) = it[t].used
    /\ it[t].pos <= Len(topics.items)
    /\ ~names_match(topics.items[it[t].pos][1], source_name[t])
    /\ it' = [it EXCEPT ![t].pos = @ + 1]
    /\ UNCHANGED <<detector, relay, media, calls, phase, file, topics, remote, save_failed, pc,
                   source_name, thread_id, outcome, ret, buf, save_error>>

\* the iterator is exhausted: fall through to the creation
LoopExit(t) ==
    /\ pc[t] = "loop"
    /\ Len(topics.items) = it[t].used
    /\ it[t].pos > Len(topics.items)
    /\ pc' = [pc EXCEPT ![t] = "create"]
    /\ it' = [it EXCEPT ![t] = NoIter]
    /\ UNCHANGED <<detector, relay, media, calls, phase, file, topics, remote, save_failed,
                   source_name, thread_id, outcome, ret, buf, save_error>>

NextTopicId == Cardinality(remote) + 1

\* create_forum_topic returns a topic with a readable thread id
CreateOk(t) ==
    /\ pc[t] = "create"
    /\ NextTopicId <= MaxCreate
    /\ remote' = remote \cup {[id |-> NextTopicId,
                               name |-> Truncated(source_name[t]),
                               returned |-> TRUE]}
    /\ thread_id' = [thread_id EXCEPT ![t] = NextTopicId]
    /\ pc' = [pc EXCEPT ![t] = "insert"]
    /\ UNCHANGED <<detector, relay, media, calls, phase, file, topics, save_failed,
                   source_name, it, outcome, ret, buf, save_error>>

\* faulty variant: the entry is stored before the thread id is looked for
CreateNoIdRecords(t) ==
    /\ pc[t] = "create"
    /\ NextTopicId <= MaxCreate
    /\ remote' = remote \cup {[id |-> NextTopicId,
                               name |-> Truncated(source_name[t]),
                               returned |-> FALSE]}
    /\ topics' = JDict(DictSet(topics.items, source_name[t], 0))
    /\ Finish(t, "failed", 0)
    /\ UNCHANGED <<detector, relay, media, calls, phase, file, save_failed,
                   source_name, thread_id, save_error>>

\* create_forum_topic returns an object without message_thread_id,
\* thread_id or id: warning, return None
CreateNoId(t) ==
    /\ pc[t] = "create"
    /\ NextTopicId <= MaxCreate
    /\ remote' = remote \cup {[id |-> NextTopicId,
                               name |-> Truncated(source_name[t]),
                               returned |-> FALSE]}
    /\ Finish(t, "failed", 0)
    /\ UNCHANGED <<detector, relay, media, calls, phase, file, topics, save_failed,
                   source_name, thread_id, save_error>>

\* create_forum_topic raises: except Exception, return None
CreateRaises(t) ==
    /\ pc[t] = "create"
    /\ Finish(t, "failed", 0)
    /\ UNCHANGED <<detector, relay, media, calls, phase, file, topics, remote, save_failed,
                   source_name, thread_id, save_error>>

\* faulty variant: the entry is keyed by the canonical form
InsertNormalized(t) ==
    /\ pc[t] = "insert"
    /\ topics' = JDict(DictSet(topics.items, normalize_topic_name(source_name[t]),
                               thread_id[t]))
    /\ pc' = [pc EXCEPT ![t] = "save"]
    /\ UNCHANGED <<detector, relay, media, calls, phase, file, remote, save_failed, locals>>

\* self.topics[source_name] = thread_id
Insert(t) ==
    /\ pc[t] = "insert"
    /\ topics' = JDict(DictSet(topics.items, source_name[t], thread_id[t]))
    /\ pc' = [pc EXCEPT ![t] = "save"]
    /\ UNCHANGED <<detector, relay, media, calls, phase, file, remote, save_failed, locals>>

\* save_topics: makedirs, open(TOPICS_FILE, 'w') truncates the file and
\* json.dump serialises self.topics into the file object's buffer
SaveOpen(t) ==
    /\ pc[t] = "save"
    /\ file' = FileText(0)
    /\ buf' = [buf EXCEPT ![t] = topics.items]
    /\ pc' = [pc EXCEPT ![t] = "close"]
    /\ UNCHANGED <<detector, relay, media, calls, phase, topics, remote, save_failed,
                   source_name, it, thread_id, outcome, ret, save_error>>

\* save_topics: makedirs or open raises; logged, then return thread_id
SaveOpenFails(t) ==
    /\ pc[t] = "save"
    /\ save_failed' = TRUE
    /\ save_error' = [save_error EXCEPT ![t] = TRUE]
    /\ Finish(t, "created", thread_id[t])
    /\ UNCHANGED <<detector, relay, media, calls, phase, file, topics, remote, source_name, thread_id>>

\* save_topics: json.dump or the flush raises (disk error, dict changed
\* size during iteration); what was written so far stays in the file
SaveWriteFails(t) ==
    /\ pc[t] = "close"
    /\ \E f \in {file, FileText(file.len)} : file' = f
    /\ save_failed' = TRUE
    /\ save_error' = [save_error EXCEPT ![t] = TRUE]
    /\ Finish(t, "created", thread_id[t])
    /\ UNCHANGED <<detector, relay, media, calls, phase, topics, remote, source_name, thread_id>>

\* leaving the with block flushes the buffer at offset 0 of the file; bytes
\* another writer put beyond its end stay; then return thread_id
SaveClose(t) ==
    /\ pc[t] = "close"
    /\ file' = IF file.len <= JsonLen(buf[t])
               THEN FileJson(JDict(buf[t]), JsonLen(buf[t]))
               ELSE FileText(file.len)
    /\ Finish(t, "created", thread_id[t])
    /\ UNCHANGED <<detector, relay, media, calls, phase, topics, remote, save_failed,
                   source_name, thread_id, save_error>>

\* forward_media returns r, process_media logs the outcome and returns; the
\* worker is free for the next message
Return(t, r) ==
    /\ pc' = [pc EXCEPT ![t] = "idle"]
    /\ result' = [result EXCEPT ![t] = r]
    /\ source_name' = [source_name EXCEPT ![t] = <<>>]
    /\ thread_id' = [thread_id EXCEPT ![t] = 0]
    /\ outcome' = [outcome EXCEPT ![t] = "none"]
    /\ ret' = [ret EXCEPT ![t] = 0]
    /\ save_error' = [save_error EXCEPT ![t] = FALSE]
    /\ UNCHANGED <<detector, calls, phase, file, topics, remote, save_failed, it, buf,
                   received, msg>>

\* faulty variant: the None check is missing, the media goes out without a
\* topic and is logged as a success
ForwardIgnoresNone(t) ==
    /\ pc[t] = "done"
    /\ outcome[t] = "failed"
    /\ delivered' = delivered + 1
    /\ activity' = [activity EXCEPT !.success = @ + 1]
    /\ stats' = stats + 1
    /\ Return(t, "true")
    /\ UNCHANGED <<attempts, snap, log, counters, logged>>

\* forward_media, lines 244-246: topic_id is None, return False
ForwardNoTopic(t) ==
    /\ pc[t] = "done"
    /\ outcome[t] = "failed"
    /\ Return(t, "false")
    /\ UNCHANGED <<delivered, activity, stats, attempts, snap, log, counters, logged>>

\* forward_media, lines 425-438: get_or_create_topic raised; the handler
\* logs the message with status "failed" and returns False
ForwardRaised(t) ==
    /\ pc[t] = "done"
    /\ outcome[t] = "raised"
    /\ activity' = [activity EXCEPT !.failed = @ + 1]
    /\ stats' = stats + 1
    /\ Return(t, "false")
    /\ UNCHANGED <<delivered, attempts, snap, log, counters, logged>>

\* forward_media, lines 248-284 and 294-419: copy_message, or the manual
\* resend, delivers the media to the topic; log_forwarded_media records a
\* "success" entry; return True
ForwardSends(t) ==
    /\ pc[t] = "done"
    /\ outcome[t] \in {"found", "created"}
    /\ delivered' = delivered + 1
    /\ activity' = [activity EXCEPT !.success = @ + 1]
    /\ stats' = stats + 1
    /\ Return(t, "true")
    /\ UNCHANGED <<attempts, snap, log, counters, logged>>

\* forward_media, lines 310-326 and 421-423: unsupported media, a protected
\* file or an error of the manual resend; return False
ForwardSendFails(t) ==
    /\ pc[t] = "done"
    /\ outcome[t] \in {"found", "created"}
    /\ Return(t, "false")
    /\ UNCHANGED <<delivered, activity, stats, attempts, snap, log, counters, logged>>

Next ==
    \/ Boot
    \/ \E t \in Threads, n \in Names : Call(t, n)
    \/ \E t \in Threads : LoopRaise(t)
    \/ \E t \in Threads : LoopHit(t)
    \/ \E t \in Threads : LoopMiss(t)
    \/ \E t \in Threads : LoopExit(t)
    \/ \E t \in Threads : CreateOk(t)
    \/ \E t \in Threads : CreateNoId(t)
    \/ \E t \in Threads : CreateRaises(t)
    \/ \E t \in Threads : Insert(t)
    \/ \E t \in Threads : SaveOpen(t)
    \/ \E t \in Threads : SaveOpenFails(t)
    \/ \E t \in Threads : SaveWriteFails(t)
    \/ \E t \in Threads : SaveClose(t)
    \/ \E t \in Threads : ForwardNoTopic(t)
    \/ \E t \in Threads : ForwardRaised(t)
    \/ \E t \in Threads : ForwardSends(t)
    \/ \E t \in Threads : ForwardSendFails(t)

Spec == Init /\ [][Next]_vars

(***************************************************************************)
(* The message handlers step by step: process_media filters the message,   *)
(* forward_media resolves the topic, copies or resends the media and       *)
(* log_forwarded_media rewrites the two log files. Spec above takes the    *)
(* part after get_or_create_topic in one step.                             *)
(***************************************************************************)

\* messages handed to the handlers
MaxMessages == 2

\* chat ids; only compared with each other. BACKUP_GROUP_ID comes from the
\* environment, the ignored id is -100000000000 in the source
BACKUP_GROUP_ID  == -1001
IGNORED_CHAT_IDS == {-1000}
ChatA == -1002
ChatB == -1003

\* a title of one character more than the platform's limit: "b!!!...!"
LongTitle == [i \in 1..(TopicNameLimit + 1) |-> IF i = 1 THEN 98 ELSE 33]

Message(chat, type, title, first_name, is_bot, forward_from, forward_from_chat, media_kind) ==
    [message_id |-> 0, chat |-> chat, type |-> type, title |-> title,
     first_name |-> first_name, is_bot |-> is_bot, forward_from |-> forward_from,
     forward_from_chat |-> forward_from_chat, media |-> media_kind]

\* the updates the message source supplies: three that pass the filters
\* of process_media (two chats with one canonical title, one of them
\* under a second title), and one for each filter
Inbox ==
    { Message(ChatA, "supergroup", <<97, 98, 99>>, <<>>, FALSE, 0, 0, "photo"),
      Message(ChatB, "channel", <<65, 66, 67, 33>>, <<>>, FALSE, 7, 0, "video"),
      Message(ChatB, "channel", LongTitle, <<>>, FALSE, 0, 0, "sticker"),
      Message(ChatA, "supergroup", <<97, 98, 99>>, <<>>, TRUE, 0, 0, "photo"),
      Message(ChatA, "supergroup", <<97, 98, 99>>, <<>>, FALSE, 0, -1000, "photo"),
      Message(8, "private", <<>>, <<97, 98, 99>>, FALSE, 0, 0, "photo"),
      Message(-1000, "channel", <<97, 98, 99>>, <<>>, FALSE, 0, 0, "photo"),
      Message(BACKUP_GROUP_ID, "supergroup", <<97, 98, 99>>, <<>>, FALSE, 0, 0, "photo"),
      Message(ChatA, "supergroup", <<97, 98, 99>>, <<>>, FALSE, 0, 0, "none") }

\* has_media: one of the eight media fields is set
has_media(m) ==
    m.media \in {"photo", "video", "document", "audio", "voice", "video_note",
                 "sticker", "animation"}

\* the if-chain of the manual resend finds a file_id: every medium but a
\* sticker
has_file_id(m) ==
    m.media \in {"photo", "video", "document", "audio", "voice", "video_note",
                 "animation"}

\* faulty variant: messages of the backup group itself pass
passes_backup_group(m) ==
    /\ ~m.is_bot
    /\ ~(m.forward_from_chat # 0 /\ m.forward_from_chat \in IGNORED_CHAT_IDS)
    /\ m.type \in {"group", "supergroup", "channel"}
    /\ m.chat \notin IGNORED_CHAT_IDS
    /\ has_media(m)

\* process_media: none of the early returns is taken
passes(m) ==
    /\ ~m.is_bot
    /\ ~(m.forward_from_chat # 0 /\ m.forward_from_chat \in IGNORED_CHAT_IDS)
    /\ m.type \in {"group", "supergroup", "channel"}
    /\ m.chat \notin IGNORED_CHAT_IDS
    /\ m.chat # BACKUP_GROUP_ID
    /\ has_media(m)

\* source_chat.title or source_chat.first_name or f"Chat_{source_chat.id}"
SourceName(m) ==
    IF m.title # <<>> THEN m.title
    ELSE IF m.first_name # <<>> THEN m.first_name
    ELSE <<67, 104, 97, 116, 95>>
           \o (IF m.chat < 0 THEN <<45>> \o DigitsOf(-m.chat) ELSE DigitsOf(m.chat))

\* bool(message.forward_from or message.forward_from_chat)
is_forwarded(m) == m.forward_from # 0 \/ m.forward_from_chat # 0

MediaInit == Init /\ file = FileMissing

\* a handler thread is handed the update m: process_media returns early,
\* or calls forward_media, which calls get_or_create_topic
ProcessMedia(t, m) ==
    /\ phase = "running"
    /\ pc[t] = "idle"
    /\ received < MaxMessages
    /\ received' = received + 1
    /\ msg' = [msg EXCEPT ![t] = [m EXCEPT !.message_id = received + 1]]
    /\ IF passes(m)
       THEN /\ Enter(t, SourceName(m))
            /\ attempts' = [attempts EXCEPT ![t] = NoAttempt]
            /\ UNCHANGED <<snap, log, counters, logged>>
       ELSE UNCHANGED <<detector, media, calls, phase, file, topics, remote,
                        save_failed, pc, locals, attempts, snap, log, counters,
                        logged>>

\* forward_media holds a topic id
HasTopic(t) == pc[t] = "done" /\ outcome[t] \in {"found", "created"}

\* faulty variant: after a successful copy the function goes on to the
\* manual resend
CopyOkFallsThrough(t) ==
    /\ HasTopic(t)
    /\ ~is_forwarded(msg[t])
    /\ delivered' = delivered + 1
    /\ attempts' = [attempts EXCEPT ![t].copy = "ok", ![t].sent = @ + 1]
    /\ pc' = [pc EXCEPT ![t] = "resend"]
    /\ UNCHANGED <<detector, calls, phase, file, topics, remote, save_failed, locals,
                   result, activity, stats, received, msg, snap, log, counters,
                   logged>>

\* the message is not forwarded and copy_message returns: the media is in
\* the topic; go on to log_forwarded_media
CopyOk(t) ==
    /\ HasTopic(t)
    /\ ~is_forwarded(msg[t])
    /\ delivered' = delivered + 1
    /\ attempts' = [attempts EXCEPT ![t].copy = "ok", ![t].sent = @ + 1]
    /\ pc' = [pc EXCEPT ![t] = "log_read"]
    /\ UNCHANGED <<detector, calls, phase, file, topics, remote, save_failed, locals,
                   result, activity, stats, received, msg, snap, log, counters,
                   logged>>

\* copy_message raises (rate limit, protected content): warning, then the
\* manual resend
CopyRaises(t) ==
    /\ HasTopic(t)
    /\ ~is_forwarded(msg[t])
    /\ attempts' = [attempts EXCEPT ![t].copy = "raised"]
    /\ pc' = [pc EXCEPT ![t] = "resend"]
    /\ UNCHANGED <<detector, calls, phase, file, topics, remote, save_failed, locals,
                   media, received, msg, snap, log, counters, logged>>

\* the manual resend is reached: the message is forwarded, or the copy
\* raised
AtResend(t) == (HasTopic(t) /\ is_forwarded(msg[t])) \/ pc[t] = "resend"

\* no file_id for this medium: "Unsupported media type", return False
ResendUnsupported(t) ==
    /\ AtResend(t)
    /\ ~has_file_id(msg[t])
    /\ attempts' = [attempts EXCEPT ![t].resend = "unsupported"]
    /\ Return(t, "false")
    /\ UNCHANGED <<delivered, activity, stats, snap, log, counters, logged>>

\* get_file, download_file or send_* raises, or the download has fewer
\* than 100 bytes: return False
ResendFails(t) ==
    /\ AtResend(t)
    /\ has_file_id(msg[t])
    /\ attempts' = [attempts EXCEPT ![t].resend = "failed"]
    /\ Return(t, "false")
    /\ UNCHANGED <<delivered, activity, stats, snap, log, counters, logged>>

\* the file is downloaded and send_photo, send_video, ... returns: the
\* media is in the topic; go on to log_forwarded_media
ResendOk(t) ==
    /\ AtResend(t)
    /\ has_file_id(msg[t])
    /\ delivered' = delivered + 1
    /\ attempts' = [attempts EXCEPT ![t].resend = "ok", ![t].sent = @ + 1]
    /\ pc' = [pc EXCEPT ![t] = "log_read"]
    /\ UNCHANGED <<detector, calls, phase, file, topics, remote, save_failed, locals,
                   result, activity, stats, received, msg, snap, log, counters,
                   logged>>

\* get_or_create_topic raised: the outer handler calls
\* log_forwarded_media with status "failed"
ForwardRaisedLogs(t) ==
    /\ pc[t] = "done"
    /\ outcome[t] = "raised"
    /\ pc' = [pc EXCEPT ![t] = "log_read"]
    /\ UNCHANGED <<detector, calls, phase, file, topics, remote, save_failed, locals,
                   media, relay>>

\* the entry log_forwarded_media appends (the timestamp is left out)
LogEntry(t) ==
    [source     |-> source_name[t],
     media_type |-> IF outcome[t] = "raised" THEN "unknown" ELSE msg[t].media,
     message_id |-> msg[t].message_id,
     status     |-> IF outcome[t] = "raised" THEN "failed" ELSE "success"]

\* logs[-1000:]
LogLimit == 1000
LastOf(s, n) == IF Len(s) <= n THEN s ELSE SubSeq(s, Len(s) - n + 1, Len(s))

CountStatus(logs, status) ==
    Cardinality({i \in 1..Len(logs) : logs[i].status = status})

\* log_forwarded_media: json.load of activity_logs.json
LogsRead(t) ==
    /\ pc[t] = "log_read"
    /\ snap' = [snap EXCEPT ![t].logs = log]
    /\ pc' = [pc EXCEPT ![t] = "log_write"]
    /\ UNCHANGED <<detector, calls, phase, file, topics, remote, save_failed, locals,
                   media, received, msg, attempts, log, counters, logged>>

\* logs.append, the cut to the last 1000, json.dump to activity_logs.json
LogsWrite(t) ==
    /\ pc[t] = "log_write"
    /\ log' = LastOf(Append(snap[t].logs, LogEntry(t)), LogLimit)
    /\ activity' = [success |-> CountStatus(log', "success"),
                    failed  |-> CountStatus(log', "failed")]
    /\ pc' = [pc EXCEPT ![t] = "stats_read"]
    /\ UNCHANGED <<detector, calls, phase, file, topics, remote, save_failed, locals,
                   result, delivered, stats, received, msg, attempts, snap,
                   counters, logged>>

\* json.load of stats.json
StatsRead(t) ==
    /\ pc[t] = "stats_read"
    /\ snap' = [snap EXCEPT ![t].total = stats, ![t].topics = counters]
    /\ pc' = [pc EXCEPT ![t] = "stats_write"]
    /\ UNCHANGED <<detector, calls, phase, file, topics, remote, save_failed, locals,
                   media, received, msg, attempts, log, counters, logged>>

\* stats["topics"][source_topic] += 1, from 0 for a new source
Bump(topic_counters, source) ==
    DictSet(topic_counters, source,
            IF source \in Keys(topic_counters)
            THEN DictGet(topic_counters, source) + 1 ELSE 1)

\* the counters are incremented and written to stats.json;
\* log_forwarded_media returns and forward_media returns True, or False
\* from the outer handler
StatsWrite(t) ==
    /\ pc[t] = "stats_write"
    /\ stats' = snap[t].total + 1
    /\ counters' = Bump(snap[t].topics, source_name[t])
    /\ snap' = [snap EXCEPT ![t] = [logs |-> <<>>, total |-> 0, topics |-> <<>>]]
    /\ logged' = logged + 1
    /\ Return(t, IF outcome[t] = "raised" THEN "false" ELSE "true")
    /\ UNCHANGED <<delivered, activity, attempts, log>>

MediaNext ==
    \/ Boot
    \/ \E t \in Threads, m \in Inbox : ProcessMedia(t, m)
    \/ \E t \in Threads : LoopRaise(t)
    \/ \E t \in Threads : LoopHit(t)
    \/ \E t \in Threads : LoopMiss(t)
    \/ \E t \in Threads : LoopExit(t)
    \/ \E t \in Threads : CreateOk(t)
    \/ \E t \in Threads : CreateNoId(t)
    \/ \E t \in Threads : CreateRaises(t)
    \/ \E t \in Threads : Insert(t)
    \/ \E t \in Threads : SaveOpen(t)
    \/ \E t \in Threads : SaveOpenFails(t)
    \/ \E t \in Threads : SaveWriteFails(t)
    \/ \E t \in Threads : SaveClose(t)
    \/ \E t \in Threads : ForwardNoTopic(t)
    \/ \E t \in Threads : ForwardRaisedLogs(t)
    \/ \E t \in Threads : CopyOk(t)
    \/ \E t \in Threads : CopyRaises(t)
    \/ \E t \in Threads : ResendUnsupported(t)
    \/ \E t \in Threads : ResendFails(t)
    \/ \E t \in Threads : ResendOk(t)
    \/ \E t \in Threads : LogsRead(t)
    \/ \E t \in Threads : LogsWrite(t)
    \/ \E t \in Threads : StatsRead(t)
    \/ \E t \in Threads : StatsWrite(t)

MediaSpec == MediaInit /\ [][MediaNext]_vars

(***************************************************************************)
(* The functions of the detector and of the normalizers, each applied once *)
(* to arguments drawn from bounded sets of names; the bot is not started.  *)
(***************************************************************************)

\* longest name handed to the normalizers
MaxLen == 3

\* longest name of the exhaustive pairs handed to the scorer
MaxScoreLen == 4

\* all names over an alphabet up to a length
Strings(alphabet, n) == UNION {[1..k -> alphabet] : k \in 0..n}

\* U+0001, tab, space, "!", "1", "B", "_", "a", e-acute, combining acute,
\* KELVIN SIGN, U+1F525 FIRE
NormAlphabet == {1, 9, 32, 33, 49, 66, 95, 97, 233, 769, 8490, 128293}

\* "a", "b", space
ScoreAlphabet == {97, 98, 32}

SpecialNames ==
    { <<128293>>,                          \* U+1F525 FIRE
      <<9749>>,                            \* U+2615 HOT BEVERAGE
      <<67, 97, 102, 233, 32, 9749>>,      \* "Cafe" with e-acute, space, U+2615
      <<67, 97, 102, 101>>,                \* "Cafe"
      <<65, 66, 67, 33>>,                  \* "ABC!"
      <<97, 98, 99>>,                      \* "abc"
      <<>> }

ClusterNames ==
    { <<97, 98, 99>>,                      \* "abc"
      <<97, 98, 99, 32, 97>>,              \* "abc a"
      <<97, 98, 99, 32, 97, 98, 99>>,      \* "abc abc"
      <<97, 98, 32, 97>>,                  \* "ab a"
      <<98, 32, 97, 98>>,                  \* "b ab"
      <<97, 32, 97, 98>>,                  \* "a ab"
      <<97, 98, 32, 98>> }                 \* "ab b"

\* registries of three distinct keys, in every order
Triples ==
    {r \in ClusterNames \X ClusterNames \X ClusterNames :
        r[1] # r[2] /\ r[1] # r[3] /\ r[2] # r[3]}

\* registries of four distinct keys, in every order
Quads ==
    {r \in ClusterNames \X ClusterNames \X ClusterNames \X ClusterNames :
        \A i, j \in 1..4 : i # j => r[i] # r[j]}

\* registries of two distinct keys, in both orders
Pairs == {r \in SpecialNames \X SpecialNames : r[1] # r[2]}

\* registry keys for the restart round trip: plain, leading and trailing
\* dash, quote, backslash, line feed, control character, emoji
RestartNames ==
    { <<97, 98, 99>>, <<45, 120>>, <<120, 45>>, <<97, 34, 98>>, <<97, 92, 98>>,
      <<97, 10, 98>>, <<1>>, <<128293>> }

\* registries of one or two keys, in insertion order
Registries ==
    {<<a>> : a \in RestartNames}
      \cup {r \in RestartNames \X RestartNames : r[1] # r[2]}

\* the dict {names[1]: 1, names[2]: 2, ...}
AsTopics(names) == [i \in 1..Len(names) |-> <<names[i], i>>]

DetectorInit ==
    /\ calls = 0
    /\ phase = "boot"
    /\ file = FileMissing
    /\ topics = JNull
    /\ remote = {}
    /\ save_failed = FALSE
    /\ pc = [t \in Threads |-> "idle"]
    /\ source_name = [t \in Threads |-> <<>>]
    /\ it = [t \in Threads |-> NoIter]
    /\ thread_id = [t \in Threads |-> 0]
    /\ outcome = [t \in Threads |-> "none"]
    /\ ret = [t \in Threads |-> 0]
    /\ buf = [t \in Threads |-> <<>>]
    /\ save_error = [t \in Threads |-> FALSE]
    /\ result = [t \in Threads |-> "none"]
    /\ delivered = 0
    /\ activity = [success |-> 0, failed |-> 0]
    /\ stats = 0
    /\ RelayInit
    /\ applied = FALSE
    /\ value = <<>>
    /\ \/ /\ fn = "normalize"
          /\ args \in {<<x>> : x \in Strings(NormAlphabet, MaxLen)}
       \/ /\ fn = "score"
          /\ args \in {<<a, b>> : a, b \in Strings(ScoreAlphabet, MaxScoreLen)}
                     \cup {<<a, b>> : a, b \in SpecialNames}
       \/ /\ fn = "check"
          /\ args \in {<<n>> \o r : n \in ClusterNames, r \in Triples}
       \/ /\ fn = "find"
          /\ args \in Triples \cup Quads
       \/ /\ fn = "analyze"
          /\ args \in Pairs \cup Triples
       \/ /\ fn = "restart"
          /\ args \in Registries

bot == <<calls, phase, file, topics, remote, save_failed, pc, locals, media, relay>>

\* normalize_topic_name(args[1]), both implementations
Normalize ==
    /\ fn = "normalize" /\ ~applied
    /\ applied' = TRUE
    /\ value' = [live |-> normalize_topic_name(args[1]),
                 detector |-> detector_normalize_topic_name(args[1])]
    /\ UNCHANGED <<bot, fn, args>>

\* detector.calculate_similarity(args[1], args[2])
Score ==
    /\ fn = "score" /\ ~applied
    /\ applied' = TRUE
    /\ value' = calculate_similarity(args[1], args[2])
    /\ UNCHANGED <<bot, fn, args>>

\* detector.check_against_existing(args[1], {args[2]: 1, args[3]: 2, args[4]: 3})
CheckExisting ==
    /\ fn = "check" /\ ~applied
    /\ applied' = TRUE
    /\ value' = check_against_existing(args[1], AsTopics(Tail(args)))
    /\ UNCHANGED <<bot, fn, args>>

\* detector.find_duplicates_in_list({args[1]: 1, args[2]: 2, ...})
FindDuplicates ==
    /\ fn = "find" /\ ~applied
    /\ applied' = TRUE
    /\ value' = find_duplicates_in_list(AsTopics(args))
    /\ UNCHANGED <<bot, fn, args>>

\* analyzer.find_potential_duplicates and analyzer.create_similarity_matrix
\* on the dict {args[1]: 1, args[2]: 2, ...}
Analyze ==
    /\ fn = "analyze" /\ ~applied
    /\ applied' = TRUE
    /\ value' = [groups |-> find_potential_duplicates(AsTopics(args)),
                 matrix |-> create_similarity_matrix(AsTopics(args))]
    /\ UNCHANGED <<bot, fn, args>>

\* save_topics of the registry {args[1]: 1, ...}, then load_topics of a
\* freshly started process on the file it wrote
Restart ==
    /\ fn = "restart" /\ ~applied
    /\ applied' = TRUE
    /\ file' = FileOf(json_dump(AsTopics(args)))
    /\ value' = load_topics(file')
    /\ UNCHANGED <<calls, phase, topics, remote, save_failed, pc, locals, media,
                   relay, fn, args>>

DetectorNext ==
    Normalize \/ Score \/ CheckExisting \/ FindDuplicates \/ Analyze \/ Restart

DetectorSpec == DetectorInit /\ [][DetectorNext]_vars

(***************************************************************************)
(* Helpers of the properties.                                              *)
(***************************************************************************)

Items == topics.items
Handles(items) == {items[i][2] : i \in 1..Len(items)}
Quiescent == \A t \in Threads : pc[t] \in {"idle", "done"}
Returned(t) == pc[t] = "done" /\ outcome[t] \in {"found", "created"}

\* the incoming name scores below the threshold against every key
AllBelow(name, items) == \A k \in Keys(items) : ~are_duplicates(name, k)

\* a step taken by worker t
StepOf(t) == pc'[t] # pc[t] \/ it'[t] # it[t] \/ source_name'[t] # source_name[t]

\* what a resolve of name started now, alone, would return (0: it would create)
ResolveNow(name) ==
    IF \E i \in 1..Len(Items) : names_match(Items[i][1], name)
    THEN Items[CHOOSE i \in 1..Len(Items) :
                  /\ names_match(Items[i][1], name)
                  /\ \A j \in 1..(i - 1) : ~names_match(Items[j][1], name)][2]
    ELSE 0

(***************************************************************************)
(* C1.  Two interleaved resolve calls for one source name that matches no  *)
(* key: the platform creates at most one topic for it, both calls return   *)
(* the same handle, and no created topic is left out of the registry.      *)
(***************************************************************************)
C1_OneTopicPerSource ==
    /\ \A n \in Names :
          Cardinality({r \in remote : r.returned /\ r.name = Truncated(n)}) <= 1
    /\ \A t, u \in Threads :
          Returned(t) /\ Returned(u) /\ source_name[t] = source_name[u]
             => ret[t] = ret[u]
    /\ \A r \in remote :
          r.returned =>
             \/ r.id \in Handles(Items)
             \/ \E t \in Threads : pc[t] = "insert" /\ thread_id[t] = r.id

(***************************************************************************)
(* C2.  Whenever some existing key scores at or above the threshold (0.85) *)
(* against the incoming name, resolve does not go on to create a topic: it *)
(* returns the handle of an existing key.                                  *)
(***************************************************************************)
C2_ThresholdMatchReuses ==
    [][\A t \in Threads :
          pc[t] = "loop" /\ pc'[t] = "create"
             => AllBelow(source_name[t], Items)]_vars

(***************************************************************************)
(* C3.  When every existing key scores below the threshold against the     *)
(* incoming name, resolve never reuses a key; the creation it makes adds   *)
(* one topic with a handle no key has; the entry it inserts is new, is     *)
(* keyed by the raw name and holds that handle, the other entries stay;    *)
(* and the call returns that handle.                                       *)
(***************************************************************************)
C3_BelowThresholdCreates ==
    [][\A t \in Threads :
          /\ pc[t] = "loop" /\ pc'[t] = "done" /\ AllBelow(source_name[t], Items)
                => outcome'[t] # "found"
          /\ pc[t] = "create" /\ pc'[t] = "insert"
                => /\ thread_id'[t] \notin Handles(Items)
                   /\ thread_id'[t] \notin {r.id : r \in remote}
                   /\ remote' = remote \cup {[id |-> thread_id'[t],
                                              name |-> Truncated(source_name[t]),
                                              returned |-> TRUE]}
          /\ pc[t] = "insert" /\ pc'[t] # "insert" /\ AllBelow(source_name[t], Items)
                => /\ topics'.items = Append(Items, <<source_name[t], thread_id[t]>>)
                   /\ remote' = remote
          /\ pc[t] \in {"insert", "save", "close"} /\ pc'[t] = "done"
                => /\ outcome'[t] = "created"
                   /\ ret'[t] = thread_id[t]
                   /\ thread_id[t] # 0
                   /\ remote' = remote
                   /\ topics'.kind = "dict"
                   /\ source_name[t] \in Keys(topics'.items)]_vars

\* "abc abc" arrived when the only key was "abc" (score 0.84): two topics
C3_Witness ==
    \E t \in Threads :
        /\ pc[t] = "done" /\ outcome[t] = "created"
        /\ Len(Items) = 2
        /\ Items[2] = <<source_name[t], ret[t]>>
        /\ Items[1][2] # ret[t]
        /\ ~are_duplicates(source_name[t], Items[1][1])
        /\ normalize_topic_name(Items[1][1]) # <<>>

C5_FailedCreationChangesNothing ==
    [][\A t \in Threads :
          /\ pc[t] = "create" /\ pc'[t] = "done"
                => outcome'[t] = "failed" /\ ret'[t] = 0
          /\ StepOf(t) /\ pc[t] \in {"idle", "done", "loop", "create"}
                => UNCHANGED <<topics, file, save_failed>>]_vars

\* a creation failed with a registry that holds an entry
C5_Witness ==
    \E t \in Threads :
        /\ pc[t] = "done" /\ outcome[t] = "failed" /\ ret[t] = 0
        /\ topics.kind = "dict" /\ Len(Items) = 1
        /\ \E r \in remote : ~r.returned

(***************************************************************************)
(* C6.  Registry entries are never mutated or deleted: every entry stays   *)
(* at its place with its key and its handle.                               *)
(***************************************************************************)
C6_EntriesNeverChange ==
    [][topics.kind = "dict" /\ topics'.kind = "dict"
          => \A i \in 1..Len(Items) :
                i <= Len(topics'.items) /\ topics'.items[i] = Items[i]]_vars

(***************************************************************************)
(* C7.  At most one entry per source: no two distinct registry keys score  *)
(* at or above the threshold against each other.                           *)
(***************************************************************************)
C7_OneEntryPerSource ==
    topics.kind = "dict"
       => \A i, j \in 1..Len(Items) :
             i # j => ~are_duplicates(Items[i][1], Items[j][1])

(***************************************************************************)
(* C8.  Whatever the registry file holds at start-up, loading does not     *)
(* raise and yields a mapping, the empty one when the file is missing,     *)
(* unparsable or holds a value of another shape.                           *)
(***************************************************************************)
C8_LoadToleratesAnyFile ==
    /\ phase # "crashed"
    /\ phase = "running" => topics.kind = "dict"
    /\ phase = "running" /\ calls = 0
       /\ (file.state # "json" \/ file.val.kind # "dict")
          => topics = JDict(<<>>)

(***************************************************************************)
(* C9.  When the save fails after a successful creation, resolve returns   *)
(* the new handle, the registry holds the new entry, and a later resolve   *)
(* of the same name returns that handle without creating.                  *)
(***************************************************************************)
C9_UnsavedEntryStays ==
    \A t \in Threads :
        pc[t] = "done" /\ outcome[t] = "created" /\ save_error[t]
           => /\ ret[t] # 0
              /\ <<source_name[t], ret[t]>> \in Range(Items)
              /\ ResolveNow(source_name[t]) = ret[t]

(***************************************************************************)
(* C10.  Once a topic has been created: whenever no resolve call is in     *)
(* progress and no save has failed, the registry file holds the in-memory  *)
(* registry, same keys, same handles, same order.                          *)
(***************************************************************************)
C10_FileEqualsRegistry ==
    Quiescent /\ ~save_failed /\ topics.kind = "dict" /\ Items # <<>>
       => file.state = "json" /\ file.val = topics

(***************************************************************************)
(* C11.  A resolution failure is isolated to its message: when             *)
(* get_or_create_topic returned None or raised, forward_media returns      *)
(* False, nothing is delivered to the backup group, no "success" entry is  *)
(* logged, process_media returns and the process keeps running; the worker *)
(* that handled the failure then accepts the next message.                 *)
(***************************************************************************)
C11_FailureIsIsolated ==
    /\ [][\A t \in Threads :
             pc[t] = "done" /\ outcome[t] \in {"failed", "raised"} /\ pc'[t] # "done"
                => /\ result'[t] = "false"
                   /\ delivered' = delivered
                   /\ activity'.success = activity.success
                   /\ pc'[t] = "idle"
                   /\ phase' = "running"
                   /\ UNCHANGED <<topics, file, remote>>]_vars
    /\ [](\A t \in Threads :
             pc[t] = "idle" /\ result[t] = "false" /\ calls < MaxCalls
                => \A n \in Names : ENABLED Call(t, n))

\* a worker whose message failed for lack of a topic is scanning the registry
\* for its next message, and nothing was delivered or logged
C11_Witness ==
    \E t \in Threads :
        /\ result[t] = "false" /\ pc[t] = "loop"
        /\ \E r \in remote : ~r.returned
        /\ delivered = 0 /\ activity = [success |-> 0, failed |-> 0]

(***************************************************************************)
(* Helpers of the properties of the detector's functions.                  *)
(***************************************************************************)

Normalized == fn = "normalize" /\ applied
Scored     == fn = "score" /\ applied
Found      == fn = "find" /\ applied

Analyzed   == fn = "analyze" /\ applied
Restarted  == fn = "restart" /\ applied

\* lowercase ASCII letters, digits and spaces only
PlainChars(s) ==
    \A i \in 1..Len(s) :
        \/ s[i] >= 97 /\ s[i] <= 122
        \/ s[i] >= 48 /\ s[i] <= 57
        \/ s[i] = 32

\* no leading, trailing or double space
SingleSpaced(s) ==
    /\ s # <<>> => s[1] # 32 /\ s[Len(s)] # 32
    /\ \A i \in 1..(Len(s) - 1) : ~(s[i] = 32 /\ s[i + 1] = 32)

\* the score is below the threshold
Below(score) == ~RGe(score, similarity_threshold)

(***************************************************************************)
(* C12.  normalize is idempotent: normalizing a canonical form returns it  *)
(* unchanged, for the normalizer of the bot and for the detector's.        *)
(***************************************************************************)
C12_NormalizeIdempotent ==
    Normalized
       => /\ normalize_topic_name(value.live) = value.live
          /\ detector_normalize_topic_name(value.detector) = value.detector

\* a name that normalization changed into a non-empty canonical form
C12_Witness ==
    /\ Normalized
    /\ args[1] = <<66, 233, 33>>
    /\ value.live = <<98, 101>>
    /\ value.detector = <<98, 101>>

(***************************************************************************)
(* C13.  For every input the output of normalize holds only lowercase      *)
(* ASCII letters, digits and spaces, with no leading space, no trailing    *)
(* space and no two consecutive spaces.                                    *)
(***************************************************************************)
C13_CanonicalCharset ==
    Normalized
       => /\ PlainChars(value.live) /\ SingleSpaced(value.live)
          /\ PlainChars(value.detector) /\ SingleSpaced(value.detector)

(***************************************************************************)
(* C14.  Two non-empty raw names with the same canonical form score        *)
(* exactly 1.0, also when the raw names differ.                            *)
(***************************************************************************)
C14_SameCanonicalScoresOne ==
    Scored /\ args[1] # <<>> /\ args[2] # <<>>
       /\ detector_normalize_topic_name(args[1]) = detector_normalize_topic_name(args[2])
       => value = <<1, 1>>

\* "Cafe" with an accent and an emoji against plain "Cafe"
C14_Witness ==
    /\ Scored
    /\ args = << <<67, 97, 102, 233, 32, 9749>>, <<67, 97, 102, 101>> >>
    /\ value = <<1, 1>>

(***************************************************************************)
(* C15.  The score is symmetric: score(a, b) equals score(b, a).           *)
(***************************************************************************)
C15_ScoreSymmetric ==
    Scored => value = calculate_similarity(args[2], args[1])

(***************************************************************************)
(* C16.  When either input of the score is the empty string the score is   *)
(* 0.0, whatever the other input is.                                       *)
(***************************************************************************)
C16_EmptyInputScoresZero ==
    Scored /\ (args[1] = <<>> \/ args[2] = <<>>) => value = <<0, 1>>

\* both inputs empty: the canonical forms are equal and the score is 0.0
C16_Witness ==
    Scored /\ args = << <<>>, <<>> >> /\ value = <<0, 1>>

(***************************************************************************)
(* C17.  A non-empty name whose canonical form is empty scores below the   *)
(* threshold against every other name, and resolve does not reuse an       *)
(* existing entry for it.                                                  *)
(***************************************************************************)
C17_EmptyCanonicalIsNew ==
    [][\A t \in Threads :
          /\ pc[t] = "loop" /\ pc'[t] # "loop"
          /\ Len(Items) = it[t].used
          /\ source_name[t] # <<>>
          /\ normalize_topic_name(source_name[t]) = <<>>
          /\ source_name[t] \notin Keys(Items)
          => /\ \A k \in Keys(Items) :
                   Below(calculate_similarity(source_name[t], k))
             /\ pc'[t] = "create"]_vars

(***************************************************************************)
(* C18.  Among the existing keys resolve selects the one with the maximum  *)
(* score against the incoming name, the earliest inserted one when several *)
(* tie, and returns that key's handle (when that score reaches the         *)
(* threshold).                                                             *)
(***************************************************************************)
C18_BestMatchSelected ==
    [][\A t \in Threads :
          /\ pc[t] = "loop"
          /\ pc'[t] \in {"create", "done"}
          /\ outcome'[t] # "raised"
          /\ check_against_existing(source_name[t], Items).is_duplicate
          => /\ pc'[t] = "done"
             /\ outcome'[t] = "found"
             /\ ret'[t] = DictGet(Items,
                    check_against_existing(source_name[t], Items).similar_topic)]_vars

(***************************************************************************)
(* C19.  For names A, B, C iterated in that order, with A and B at or      *)
(* above the threshold, B and C at or above it and A and C below it.       *)
(***************************************************************************)
Chain(a, b, c) ==
    /\ Len(args) = 3
    /\ ~Below(calculate_similarity(a, b))
    /\ ~Below(calculate_similarity(b, c))
    /\ Below(calculate_similarity(a, c))

\* as stated: all three names are in one cluster
C19_ChainInOneCluster ==
    Found /\ Chain(args[1], args[2], args[3])
       => \E i \in 1..Len(value) : Range(args) \subseteq Range(value[i])

\* as amended: the only cluster is A with B; C is in no cluster
C19_SeedGathersOnly ==
    Found /\ Chain(args[1], args[2], args[3])
       => value = << <<args[1], args[2]>> >>

\* "abc", "abc a", "abc abc": 0.858, 0.902 and 0.84
C19_Witness ==
    /\ Found
    /\ args = << <<97, 98, 99>>, <<97, 98, 99, 32, 97>>,
                 <<97, 98, 99, 32, 97, 98, 99>> >>
    /\ Chain(args[1], args[2], args[3])

(***************************************************************************)
(* C20.  The registry has two entries and the second, incoming, name       *)
(* scored below the threshold against the first, existing, key.            *)
(***************************************************************************)
SplitPair ==
    /\ topics.kind = "dict"
    /\ Len(Items) = 2
    /\ Below(calculate_similarity(Items[2][1], Items[1][1]))

\* as stated: the cluster finder reports the two entries as a pair
C20_AuditReportsPair ==
    SplitPair => find_duplicates_in_list(Items) = << <<Items[1][1], Items[2][1]>> >>

\* as amended: it reports them exactly when the existing key, compared
\* first, scores at or above the threshold against the new name
C20_AuditFollowsScore ==
    SplitPair
       => find_duplicates_in_list(Items)
             = IF Below(calculate_similarity(Items[1][1], Items[2][1]))
               THEN <<>>
               ELSE << <<Items[1][1], Items[2][1]>> >>

\* "abc" then "abc abc" (0.84 both ways): two topics, no cluster reported
C20_Witness ==
    /\ SplitPair
    /\ Quiescent
    /\ Below(calculate_similarity(Items[1][1], Items[2][1]))
    /\ normalize_topic_name(Items[1][1]) # <<>>
    /\ normalize_topic_name(Items[2][1]) # <<>>
    /\ find_duplicates_in_list(Items) = <<>>

(***************************************************************************)
(* C21.  There is one scorer: the analyzer's clustering puts together the  *)
(* names the detector's verdict puts together, and its similarity matrix   *)
(* holds the detector's score of every pair (to three decimals).           *)
(***************************************************************************)
C21_OneScorer ==
    Analyzed
       => /\ [i \in 1..Len(value.groups) |->
                [k \in 1..Len(value.groups[i]) |-> value.groups[i][k].name]]
             = find_duplicates_in_list(AsTopics(args))
          /\ \A a, b \in Range(args) :
                a # b => value.matrix[a][b] = Round3(calculate_similarity(a, b))

(***************************************************************************)
(* C29.  The groups find_duplicates_in_list returns are pairwise disjoint, *)
(* each has at least two names, each lists its names in the order of the   *)
(* registry, and every later member of a group scores at or above the      *)
(* threshold against the group's first member; the registry handed in is   *)
(* left as it was.                                                         *)
(***************************************************************************)
PosIn(names, x) == CHOOSE i \in 1..Len(names) : names[i] = x

C29_GroupsWellFormed ==
    /\ [](Found =>
            /\ \A i \in 1..Len(value) : Len(value[i]) >= 2
            /\ \A i, j \in 1..Len(value) :
                  i # j => Range(value[i]) \cap Range(value[j]) = {}
            /\ \A i \in 1..Len(value) :
                  /\ Range(value[i]) \subseteq Range(args)
                  /\ \A k, l \in 1..Len(value[i]) :
                        k < l => PosIn(args, value[i][k]) < PosIn(args, value[i][l])
                  /\ \A k \in 2..Len(value[i]) :
                        ~Below(calculate_similarity(value[i][1], value[i][k])))
    /\ [][fn = "find" /\ applied' => args' = args]_vars

\* a registry of four names with two groups of two
C29_Witness ==
    /\ Found
    /\ Len(args) = 4
    /\ Len(value) = 2
    /\ Len(value[1]) = 2 /\ Len(value[2]) = 2

C24_RestartRoundTrip ==
    Restarted =>
        /\ ~value.raised
        /\ value.value = JDict(AsTopics(args))

\* the round trip for the registries whose first key does not begin with '-'
C24_RoundTripWithoutDash ==
    Restarted /\ Head(args[1]) # 45 =>
        /\ ~value.raised
        /\ value.value = JDict(AsTopics(args))
        /\ file = FileJson(JDict(AsTopics(args)), JsonLen(AsTopics(args)))

\* what a reader may return for "empty or zero"
EmptyValue(v) == v = JNull \/ (v.kind = "dict" /\ v.items = <<>>)

ToleratesRead(r) ==
    /\ ~get_topics_count(r).raised
    /\ get_topics_count(r).value = 0
    /\ ~get_summary_stats(r, stats).raised
    /\ get_summary_stats(r, stats).total_topics = 0
    /\ ~load_current_topics(r).raised
    /\ EmptyValue(load_current_topics(r).value)

\* C23: while save_topics is in the middle of overwriting the registry file
\* (the file is empty or holds a part of the new text), each diagnostic
\* reader returns an empty or zero result and does not raise
C23_ReadersTolerateTornFile ==
    \A t \in Threads :
        pc[t] = "close" =>
            \A bytes \in Torn(buf[t]) : ToleratesRead(ReadBytes(bytes))

\* the same for the two readers of the dashboard alone, and for
\* load_current_topics on the cuts that fall between two characters
C23_DashboardTolerates ==
    \A t \in Threads :
        pc[t] = "close" =>
            \A bytes \in Torn(buf[t]) :
                /\ get_topics_count(ReadBytes(bytes)) = [raised |-> FALSE, value |-> 0]
                /\ get_summary_stats(ReadBytes(bytes), stats).total_topics = 0
                /\ ReadBytes(bytes).error # "none"
                /\ ReadBytes(bytes).error = "JSONDecodeError"
                      => ToleratesRead(ReadBytes(bytes))

\* forward_media of worker t is between the return of get_or_create_topic
\* with a handle and its own return
Routed(t) ==
    /\ pc[t] \in {"done", "resend", "log_read", "log_write", "stats_read", "stats_write"}
    /\ outcome[t] \in {"found", "created"}

\* C22: on creation the collaborator is given the raw incoming name cut to
\* its first 128 characters (the name itself when it has at most 128), and
\* the registry entry is keyed by the full raw name
C22_CreationGetsCutRawName ==
    [][\A t \in Threads :
          /\ pc[t] = "create" /\ pc'[t] # "create" /\ remote' # remote
                => /\ source_name[t] = SourceName(msg[t])
                   /\ \E r \in remote' \ remote :
                         /\ Len(source_name[t]) <= TopicNameLimit
                               => r.name = source_name[t]
                         /\ Len(source_name[t]) > TopicNameLimit
                               => r.name = SubSeq(source_name[t], 1, TopicNameLimit)
          /\ pc[t] = "insert" /\ pc'[t] = "save"
                => /\ source_name[t] = SourceName(msg[t])
                   /\ <<source_name[t], thread_id[t]>> \in Range(topics'.items)]_vars

\* a topic named by the first 128 characters, recorded under all 129
C22_Witness ==
    /\ topics.kind = "dict"
    /\ \E r \in remote :
          /\ Len(r.name) = TopicNameLimit
          /\ <<LongTitle, r.id>> \in Range(Items)
          /\ r.name # LongTitle
    /\ \E r \in remote :
          /\ r.name = <<65, 66, 67, 33>>
          /\ <<r.name, r.id>> \in Range(Items)

\* C25: routing does not depend on the chat: two chats whose titles have
\* one canonical form are routed to the same topic, and one chat under two
\* titles of different canonical forms is routed to two topics
C25_RoutingIgnoresChat ==
    \A t, u \in Threads :
        Routed(t) /\ Routed(u) =>
            /\ msg[t].chat # msg[u].chat
                  /\ names_match(source_name[t], source_name[u])
                  => ret[t] = ret[u]
            /\ msg[t].chat = msg[u].chat
                  /\ ~names_match(source_name[t], source_name[u])
                  => ret[t] # ret[u]

\* the five exclusions, as the claim lists them
Excluded(m) ==
    \/ m.chat = BACKUP_GROUP_ID
    \/ m.chat \in IGNORED_CHAT_IDS
    \/ m.type \notin {"group", "supergroup", "channel"}
    \/ m.is_bot
    \/ m.media = "none"

\* C26: for an excluded message (from the backup group, from an ignored
\* chat, from a chat that is no group, supergroup or channel, from a bot, or
\* without media) forward_media is never called: the worker stays idle, no
\* topic is created, nothing is sent or logged
C26_ExcludedNeverForwarded ==
    /\ [](\A t \in Threads : pc[t] # "idle" => ~Excluded(msg[t]))
    /\ [][\A t \in Threads :
             received' = received + 1 /\ msg'[t].message_id = received'
                /\ Excluded(msg'[t])
                => /\ pc'[t] = "idle"
                   /\ UNCHANGED <<calls, topics, remote, file, delivered, activity,
                                  stats, log, counters, attempts, result>>]_vars

\* two excluded messages, one of them of the backup group itself, have
\* been turned away and have left no trace
C26_Witness ==
    /\ received = MaxMessages
    /\ \A t \in Threads : pc[t] = "idle" /\ Excluded(msg[t])
    /\ \E t \in Threads : msg[t].chat = BACKUP_GROUP_ID
    /\ remote = {} /\ delivered = 0 /\ calls = 0

\* C27: forward_media delivers a message at most once and reports it:
\* copy_message is tried only for a message that is not forwarded, the
\* manual resend only for a forwarded one or after the copy raised, and
\* the call returns True exactly when one of the two has succeeded
C27_DeliversOnceAndReports ==
    /\ [](\A t \in Threads :
             /\ attempts[t].sent <= 1
             /\ pc[t] # "idle" /\ attempts[t].copy # "none"
                   => ~is_forwarded(msg[t]))
    /\ [][/\ delivered' # delivered
                => /\ delivered' = delivered + 1
                   /\ \E t \in Threads : attempts'[t].sent = attempts[t].sent + 1
           /\ \A t \in Threads :
                pc[t] # "idle" /\ pc'[t] = "idle"
                   => /\ result'[t] = "true"
                         <=> (attempts'[t].copy = "ok") # (attempts'[t].resend = "ok")
                      /\ result'[t] = "true" <=> attempts'[t].sent = 1
                      /\ attempts'[t].copy # "none" => ~is_forwarded(msg[t])
                      /\ attempts'[t].resend # "none"
                            => is_forwarded(msg[t]) \/ attempts'[t].copy = "raised"]_vars

\* the copy raised and the manual resend delivered: True; a forwarded
\* message went out by the resend alone
C27_Witness ==
    /\ \E t \in Threads :
          /\ pc[t] = "idle" /\ result[t] = "true"
          /\ attempts[t] = [copy |-> "raised", resend |-> "ok", sent |-> 1]
    /\ \E t \in Threads :
          /\ pc[t] = "idle" /\ result[t] = "true" /\ is_forwarded(msg[t])
          /\ attempts[t] = [copy |-> "none", resend |-> "ok", sent |-> 1]
    /\ delivered = 2

RECURSIVE SumOf(_)
SumOf(topic_counters) ==
    IF topic_counters = <<>> THEN 0
    ELSE Head(topic_counters)[2] + SumOf(Tail(topic_counters))

\* C28: when no log_forwarded_media call is in progress, after N calls
\* that have returned: total_messages is N, the counters of the sources
\* sum to total_messages, and the activity log holds min(N, 1000) entries,
\* the most recent ones at the end
C28_StatisticsNotLost ==
    (\A t \in Threads :
         pc[t] \notin {"log_read", "log_write", "stats_read", "stats_write"})
    => /\ stats = logged
       /\ SumOf(counters) = stats
       /\ Len(log) = (IF logged < LogLimit THEN logged ELSE LogLimit)
       /\ \A i, j \in 1..Len(log) :
             i < j => log[i].message_id # log[j].message_id

====
